---- MODULE Spec2Model ----
(***************************************************************************)
(* Model of src/services/image_recognition_easyocr.py: the                 *)
(* ImageRecognitionService wrapper around an EasyOCR reader and the        *)
(* module-level detect_document function.                                  *)
(*                                                                         *)
(* Python strings are sequences of one-character strings, so that join,    *)
(* lower, endswith and the f-string formatting are computed, not assumed.  *)
(* Python floats are exact rationals [num, den] with den > 0.              *)
(* The engine (easyocr.Reader.readtext) is the environment: each call it   *)
(* either raises an Exception carrying a message or returns an ordered     *)
(* list of regions (bbox, text, confidence in [0,1]).                      *)
(***************************************************************************)
EXTENDS Integers, Sequences, FiniteSets, TLC

VARIABLES
    ctorArg,        \* the `languages` argument __init__ was called with
    languages,      \* self.languages
    reader,         \* self.reader, the engine handle
    stdout,         \* the caller's sys.stdout: where it points and what it received
    last            \* the last call made: operation, inputs and what it returned

vars == <<ctorArg, languages, reader, stdout, last>>

---------------------------------------------------------------------------
\* Bounds of the model.

\* Longest list of regions the engine returns.
MaxRegions == 2

---------------------------------------------------------------------------
\* Python values.

\* Python's None, and a str held in an Optional[str].
None == [none |-> TRUE, str |-> <<>>]
Some(s) == [none |-> FALSE, str |-> s]

\* A float: the exact rational num / den, den > 0.
Float(n, d) == [num |-> n, den |-> d]
Zero == Float(0, 1)
\* x + y and x / n (n a positive int) on floats.
FloatAdd(x, y) == Float(x.num * y.den + y.num * x.den, x.den * y.den)
FloatDiv(x, n) == Float(x.num, x.den * n)

NL == <<"\n">>
SPACE == <<" ">>

NoTextMsg == <<"N", "o", " ", "t", "e", "x", "t", " ", "d", "e", "t", "e", "c", "t", "e", "d", " ", "i", "n", " ", "t", "h", "e", " ", "i", "m", "a", "g", "e">>
ErrorPrefix == <<"E", "r", "r", "o", "r", " ", "p", "r", "o", "c", "e", "s", "s", "i", "n", "g", " ", "i", "m", "a", "g", "e", ":", " ">>

\* f"Error processing image: {e}"
FormatError_DropsMessage(msg) == ErrorPrefix
FormatError(msg) == ErrorPrefix \o msg

\* sep.join(items), items a list of str.
RECURSIVE join_Trailing(_, _)
join_Trailing(sep, items) ==
    IF items = <<>> THEN <<>>
    ELSE Head(items) \o sep \o join_Trailing(sep, Tail(items))
RECURSIVE join(_, _)
join(sep, items) ==
    IF items = <<>> THEN <<>>
    ELSE IF Len(items) = 1 THEN Head(items)
    ELSE Head(items) \o sep \o join(sep, Tail(items))

\* sum(xs) for a list of floats: a left fold from 0.
RECURSIVE sum_from(_, _)
sum_from(acc, xs) == IF xs = <<>> THEN acc ELSE sum_from(FloatAdd(acc, Head(xs)), Tail(xs))
sum(xs) == sum_from(Zero, xs)

UpperLetters == <<"A", "B", "C", "D", "E", "F", "G", "H", "I", "J", "K", "L", "M", "N", "O", "P", "Q", "R", "S", "T", "U", "V", "W", "X", "Y", "Z">>
LowerLetters == <<"a", "b", "c", "d", "e", "f", "g", "h", "i", "j", "k", "l", "m", "n", "o", "p", "q", "r", "s", "t", "u", "v", "w", "x", "y", "z">>

\* str.lower(), on the ASCII letters.
lower(s) ==
    [i \in 1..Len(s) |->
        IF \E k \in 1..26 : UpperLetters[k] = s[i]
        THEN LowerLetters[CHOOSE k \in 1..26 : UpperLetters[k] = s[i]]
        ELSE s[i]]

\* str.endswith(suffix)
endswith(s, suffix) ==
    /\ Len(s) >= Len(suffix)
    /\ SubSeq(s, Len(s) - Len(suffix) + 1, Len(s)) = suffix

---------------------------------------------------------------------------
\* The engine: what one readtext invocation can do.

\* One region as EasyOCR reports it with detail=1: (bbox, text, confidence),
\* the confidence a probability in [0,1]. The text of a region may be empty.
Regions ==
    { <<0, <<>>, Float(1, 2)>>,
      <<1, <<"a">>, Float(1, 1)>>,
      <<2, <<"b", " ", "c">>, Float(0, 1)>>,
      <<3, <<"a">>, Float(1, 4)>> }

RECURSIVE SeqsUpTo(_, _)
SeqsUpTo(S, n) ==
    IF n = 0 THEN { <<>> }
    ELSE LET shorter == SeqsUpTo(S, n - 1)
         IN shorter \cup { Append(s, x) : s \in shorter, x \in S }

ExceptionMessages == { <<>>, <<"d", "i", "s", "k", " ", "f", "u", "l", "l">>, NoTextMsg }

\* The outcome of one readtext invocation.
Outcomes ==
    { [kind |-> "raise", msg |-> m, regions |-> <<>>] : m \in ExceptionMessages }
    \cup { [kind |-> "ok", msg |-> <<>>, regions |-> rs] : rs \in SeqsUpTo(Regions, MaxRegions) }

\* What the engine writes to sys.stdout while it is constructed and run
\* (EasyOCR's download progress bar), when it writes anything.
EnginePrints == { <<>>, <<"%">> }

\* reader.readtext(path, detail): with detail=0 the list of recognized strings,
\* with detail=1 the list of (bbox, text, confidence) triples.
readtext(outcome, detail) ==
    IF detail = 0 THEN [i \in 1..Len(outcome.regions) |-> outcome.regions[i][2]]
    ELSE outcome.regions

---------------------------------------------------------------------------
\* ImageRecognitionService

\* __init__: self.languages = languages if languages else ['en']
EN == << <<"e", "n">> >>
InitLanguages_NoDefault(arg) == IF arg = None THEN <<>> ELSE arg.str
InitLanguages(arg) == IF arg = None \/ arg.str = <<>> THEN EN ELSE arg.str

\* easyocr.Reader(langs): the handle of a constructed engine.
Reader(langs) == [langs |-> langs]

\* ImageRecognitionService.detect_document: (extracted_text, error_message)
detect_document_NoEmptyCheck(outcome) ==
    IF outcome.kind = "raise"
    THEN [text |-> <<>>, error |-> Some(FormatError(outcome.msg)), raised |-> FALSE, invocations |-> 1]
    ELSE [text |-> join(SPACE, readtext(outcome, 0)), error |-> None, raised |-> FALSE, invocations |-> 1]
detect_document_Retry(outcome) ==
    IF outcome.kind = "raise"
    THEN [text |-> <<>>, error |-> Some(FormatError(outcome.msg)), raised |-> FALSE, invocations |-> 2]
    ELSE IF readtext(outcome, 0) = <<>>
    THEN [text |-> <<>>, error |-> Some(NoTextMsg), raised |-> FALSE, invocations |-> 1]
    ELSE [text |-> join(SPACE, readtext(outcome, 0)), error |-> None, raised |-> FALSE, invocations |-> 1]
detect_document(outcome) ==
    IF outcome.kind = "raise"
    THEN \* except Exception as e
         [text |-> <<>>, error |-> Some(FormatError(outcome.msg)), raised |-> FALSE, invocations |-> 1]
    ELSE LET result == readtext(outcome, 0)
         IN IF result = <<>>
            THEN [text |-> <<>>, error |-> Some(NoTextMsg), raised |-> FALSE, invocations |-> 1]
            ELSE [text |-> join(SPACE, result), error |-> None, raised |-> FALSE, invocations |-> 1]

\* average_confidence = sum(confidences) / len(confidences) if confidences else 0.0
average_OffByOne(confidences) ==
    IF confidences # <<>> THEN FloatDiv(sum(confidences), Len(confidences) + 1) ELSE Zero
average(confidences) ==
    IF confidences # <<>> THEN FloatDiv(sum(confidences), Len(confidences)) ELSE Zero

\* ImageRecognitionService.detect_document_with_confidence:
\* (extracted_text, confidence, error_message)
detect_document_with_confidence_FirstLine(outcome) ==
    IF outcome.kind = "raise"
    THEN [text |-> <<>>, confidence |-> Zero, error |-> Some(FormatError(outcome.msg)), raised |-> FALSE, invocations |-> 1]
    ELSE LET result == readtext(outcome, 1)
         IN IF result = <<>>
            THEN [text |-> <<>>, confidence |-> Zero, error |-> Some(NoTextMsg), raised |-> FALSE, invocations |-> 1]
            ELSE [text |-> result[1][2],
                  confidence |-> average([i \in 1..Len(result) |-> result[i][3]]),
                  error |-> None, raised |-> FALSE, invocations |-> 1]
detect_document_with_confidence(outcome) ==
    IF outcome.kind = "raise"
    THEN \* except Exception as e
         [text |-> <<>>, confidence |-> Zero, error |-> Some(FormatError(outcome.msg)), raised |-> FALSE, invocations |-> 1]
    ELSE LET result == readtext(outcome, 1)
         IN IF result = <<>>
            THEN [text |-> <<>>, confidence |-> Zero, error |-> Some(NoTextMsg), raised |-> FALSE, invocations |-> 1]
            ELSE LET extracted_text == join(SPACE, [i \in 1..Len(result) |-> result[i][2]])
                     confidences == [i \in 1..Len(result) |-> result[i][3]]
                 IN [text |-> extracted_text, confidence |-> average(confidences),
                     error |-> None, raised |-> FALSE, invocations |-> 1]

supported_formats ==
    { <<".", "j", "p", "g">>, <<".", "j", "p", "e", "g">>, <<".", "p", "n", "g">>,
      <<".", "g", "i", "f">>, <<".", "b", "m", "p">>, <<".", "w", "e", "b", "p">>,
      <<".", "i", "c", "o">> }

\* ImageRecognitionService.is_supported_format
is_supported_format_CaseSensitive(file_path) ==
    \E fmt \in supported_formats : endswith(file_path, fmt)
is_supported_format(file_path) ==
    \E fmt \in supported_formats : endswith(lower(file_path), fmt)

\* contextlib.redirect_stdout(output): sys.stdout points to the StringIO `output`.
redirect_stdout(callerText) == [target |-> "output", output |-> <<>>, caller |-> callerText]
\* Leaving the `with` block: sys.stdout points to the caller's stream again.
restore_stdout(io) == [io EXCEPT !.target = "caller"]
\* A write of s to sys.stdout, wherever it points.
write(io, s) ==
    IF io.target = "output" THEN [io EXCEPT !.output = @ \o s]
    ELSE [io EXCEPT !.caller = @ \o s]
\* print(s): s and a newline written to sys.stdout.
print_line(io, s) == write(io, s \o NL)

\* The module-level detect_document(path): the returned str, and the standard
\* streams it leaves behind. `printed` is what the engine wrote to sys.stdout.
module_detect_document_ReturnsCaptured(outcome, printed, callerText) ==
    LET io0 == redirect_stdout(callerText)
        io1 == write(io0, printed)
    IN IF outcome.kind = "raise"
       THEN LET io2 == print_line(io1, FormatError(outcome.msg))
            IN [value |-> io2.output, raised |-> FALSE, invocations |-> 1, io |-> restore_stdout(io2)]
       ELSE LET result == readtext(outcome, 0)
            IN IF result = <<>>
               THEN LET io2 == print_line(io1, NoTextMsg)
                    IN [value |-> io2.output, raised |-> FALSE, invocations |-> 1, io |-> restore_stdout(io2)]
               ELSE LET io2 == print_line(io1, join(SPACE, result))
                    IN [value |-> io2.output, raised |-> FALSE, invocations |-> 1, io |-> restore_stdout(io2)]
module_detect_document(outcome, printed, callerText) ==
    LET io0 == redirect_stdout(callerText)
        \* reader = easyocr.Reader(['en']); reader.readtext(path, detail=0)
        io1 == write(io0, printed)
    IN IF outcome.kind = "raise"
       THEN \* except Exception as e
            LET io2 == print_line(io1, FormatError(outcome.msg))
            IN [value |-> io2.output, raised |-> FALSE, invocations |-> 1, io |-> restore_stdout(io2)]
       ELSE LET result == readtext(outcome, 0)
            IN IF result = <<>>
               THEN LET io2 == print_line(io1, NoTextMsg)
                    IN [value |-> io2.output, raised |-> FALSE, invocations |-> 1, io |-> restore_stdout(io2)]
               ELSE LET extracted_text == join(SPACE, result)
                        io2 == print_line(io1, extracted_text)
                    IN [value |-> extracted_text, raised |-> FALSE, invocations |-> 1, io |-> restore_stdout(io2)]

---------------------------------------------------------------------------
\* Inputs.

PathStems == { <<"a">>, <<"b", ".", "j", "p", "g">> }
PathExts ==
    { <<".", "j", "p", "g">>,
      <<".", "j", "p", "e", "g">>,
      <<".", "p", "n", "g">>,
      <<".", "g", "i", "f">>,
      <<".", "b", "m", "p">>,
      <<".", "w", "e", "b", "p">>,
      <<".", "i", "c", "o">>,
      <<".", "J", "P", "G">>,
      <<".", "J", "p", "e", "g">>,
      <<".", "P", "N", "G">>,
      <<".", "G", "i", "F">>,
      <<".", "W", "e", "b", "P">>,
      <<".", "I", "C", "O">>,
      <<".", "t", "x", "t">>,
      <<>>,
      <<"p", "n", "g">>,
      <<".", "p", "n">>,
      <<".", "p", "n", "g", "s">>,
      <<".", "p", "n", "g", ".", "t", "x", "t">>,
      <<".", "i", "c", "o", " ">> }
\* The paths is_supported_format is asked about.
Paths == { stem \o ext : stem \in PathStems, ext \in PathExts }
\* The paths handed to the engine; what the engine makes of one is its outcome.
DetectPaths == { <<"a", ".", "p", "n", "g">> }

\* The `languages` argument of the constructor.
LanguageArgs ==
    { None, Some(<<>>), Some(<< <<"f", "r">> >>), Some(<< <<"e", "n">>, <<"f", "r">> >>) }

NoOutcome == [kind |-> "none", msg |-> <<>>, regions |-> <<>>]

\* History kept for comparing the two variants: when the call before this one was
\* the other variant `op` and the engine did the same thing, what that call returned.
NoTwin == [some |-> FALSE, text |-> <<>>, error |-> None]
TwinOf(prev, op, outcome) ==
    IF prev.op = op /\ prev.outcome = outcome
    THEN [some |-> TRUE, text |-> prev.ret.text, error |-> prev.ret.error]
    ELSE NoTwin

---------------------------------------------------------------------------
\* The state machine: a service is constructed, then called any number of times.

Init ==
    /\ ctorArg \in LanguageArgs
    /\ languages = InitLanguages(ctorArg)
    /\ reader = Reader(languages)
    /\ stdout = [target |-> "caller", text |-> <<>>]
    /\ last = [op |-> "none", path |-> <<>>, outcome |-> NoOutcome, printed |-> <<>>,
               ret |-> [raised |-> FALSE, invocations |-> 0], twin |-> NoTwin,
               stdoutBefore |-> <<>>]

DetectDocument ==
    /\ \E path \in DetectPaths, outcome \in Outcomes :
          LET ret == detect_document(outcome)
          IN last' = [op |-> "detect_document", path |-> path, outcome |-> outcome,
                      printed |-> <<>>, ret |-> ret,
                      twin |-> TwinOf(last, "detect_document_with_confidence", outcome),
                      stdoutBefore |-> stdout.text]
    /\ UNCHANGED <<ctorArg, languages, reader, stdout>>

DetectDocumentWithConfidence ==
    /\ \E path \in DetectPaths, outcome \in Outcomes :
          LET ret == detect_document_with_confidence(outcome)
          IN last' = [op |-> "detect_document_with_confidence", path |-> path,
                      outcome |-> outcome, printed |-> <<>>, ret |-> ret,
                      twin |-> TwinOf(last, "detect_document", outcome),
                      stdoutBefore |-> stdout.text]
    /\ UNCHANGED <<ctorArg, languages, reader, stdout>>

IsSupportedFormat ==
    /\ \E file_path \in Paths :
          last' = [op |-> "is_supported_format", path |-> file_path, outcome |-> NoOutcome,
                   printed |-> <<>>,
                   ret |-> [value |-> is_supported_format(file_path), raised |-> FALSE,
                            invocations |-> 0],
                   twin |-> NoTwin, stdoutBefore |-> stdout.text]
    /\ UNCHANGED <<ctorArg, languages, reader, stdout>>

ModuleDetectDocument ==
    /\ \E path \in DetectPaths, outcome \in Outcomes, printed \in EnginePrints :
          LET ret == module_detect_document(outcome, printed, stdout.text)
          IN /\ last' = [op |-> "module_detect_document", path |-> path, outcome |-> outcome,
                         printed |-> printed,
                         ret |-> [value |-> ret.value, raised |-> ret.raised,
                                  invocations |-> ret.invocations],
                         twin |-> NoTwin, stdoutBefore |-> stdout.text]
             /\ stdout' = [target |-> ret.io.target, text |-> ret.io.caller]
    /\ UNCHANGED <<ctorArg, languages, reader>>

Next ==
    \/ DetectDocument
    \/ DetectDocumentWithConfidence
    \/ IsSupportedFormat
    \/ ModuleDetectDocument

Spec == Init /\ [][Next]_vars

---------------------------------------------------------------------------
\* Vocabulary of the properties.

IsServiceDetect == last.op \in {"detect_document", "detect_document_with_confidence"}
EngineRaised == last.outcome.kind = "raise"
EngineReturned == last.outcome.kind = "ok"
\* The strings the engine recognized, in the engine's order.
RecognizedLines == [i \in 1..Len(last.outcome.regions) |-> last.outcome.regions[i][2]]
\* The confidences the engine reported, in the engine's order.
RegionScores == [i \in 1..Len(last.outcome.regions) |-> last.outcome.regions[i][3]]

\* sub occurs in s.
Contains(s, sub) ==
    \E i \in 0..(Len(s) - Len(sub)) : \A k \in 1..Len(sub) : s[i + k] = sub[k]

\* Number of characters of `text` before line i, when the lines are laid out
\* one after the other with one separator character between neighbours.
RECURSIVE OffsetOfLine(_, _)
OffsetOfLine(lines, i) ==
    IF i = 1 THEN 0 ELSE OffsetOfLine(lines, i - 1) + Len(lines[i - 1]) + 1

\* text is the lines in order with exactly one space between consecutive lines
\* and nothing before the first or after the last.
IsSpaceJoined(text, lines) ==
    LET n == Len(lines)
    IN /\ n >= 1
       /\ Len(text) = OffsetOfLine(lines, n) + Len(lines[n])
       /\ \A i \in 1..n : \A k \in 1..Len(lines[i]) :
             text[OffsetOfLine(lines, i) + k] = lines[i][k]
       /\ \A i \in 1..(n - 1) : text[OffsetOfLine(lines, i) + Len(lines[i]) + 1] = " "

\* Rational comparisons, denominators positive.
FloatEq(x, y) == x.num * y.den = y.num * x.den
FloatLeq(x, y) == x.num * y.den <= y.num * x.den

\* The product of the denominators of the scores, and the sum of the scores
\* as a numerator over that product.
RECURSIVE DenProduct(_)
DenProduct(scores) ==
    IF scores = <<>> THEN 1 ELSE Head(scores).den * DenProduct(Tail(scores))
RECURSIVE ScoreTotal(_, _)
ScoreTotal(scores, d) ==
    IF scores = <<>> THEN 0
    ELSE Head(scores).num * (d \div Head(scores).den) + ScoreTotal(Tail(scores), d)

\* c * n = the sum of the scores.
IsMeanOf(c, scores) ==
    LET d == DenProduct(scores)
    IN c.num * Len(scores) * d = ScoreTotal(scores, d) * c.den

\* The two letters are the same up to ASCII case.
SameLetterIgnoringCase(a, b) ==
    \/ a = b
    \/ \E k \in 1..26 : {a, b} = {UpperLetters[k], LowerLetters[k]}

AllowedSuffixes ==
    { <<".", "j", "p", "g">>, <<".", "j", "p", "e", "g">>, <<".", "p", "n", "g">>,
      <<".", "g", "i", "f">>, <<".", "b", "m", "p">>, <<".", "w", "e", "b", "p">>,
      <<".", "i", "c", "o">> }

\* path ends, case-insensitively, with one of the allowed suffixes.
HasAllowedSuffix(path) ==
    \E suf \in AllowedSuffixes :
        /\ Len(path) >= Len(suf)
        /\ \A k \in 1..Len(suf) :
              SameLetterIgnoringCase(path[Len(path) - Len(suf) + k], suf[k])

---------------------------------------------------------------------------
\* C1: for every call of detect_document and detect_document_with_confidence,
\* exactly one of "the returned text is non-empty" and "the returned error is
\* not None" holds: never both, never neither.
C1_ExactlyOneOfTextOrError ==
    IsServiceDetect =>
        \/ (last.ret.text # <<>> /\ last.ret.error = None)
        \/ (last.ret.text = <<>> /\ last.ret.error # None)

\* C2: an exception raised by readtext is never raised to the caller: the call
\* returns empty text, an error string that contains the exception's message
\* and, for the confidence variant, confidence 0.0.
C2_EngineExceptionBecomesError ==
    (IsServiceDetect /\ EngineRaised) =>
        /\ ~last.ret.raised
        /\ last.ret.text = <<>>
        /\ last.ret.error # None
        /\ Contains(last.ret.error.str, last.outcome.msg)
        /\ last.op = "detect_document_with_confidence" =>
              (last.ret.confidence.num = 0 /\ last.ret.confidence.den > 0)

C2_Witness ==
    /\ last.op = "detect_document_with_confidence"
    /\ EngineRaised
    /\ last.outcome.msg = <<"d", "i", "s", "k", " ", "f", "u", "l", "l">>
    /\ last.ret.error # None

\* C3: when the engine returns no regions, detect_document returns exactly
\* ("", "No text detected in the image") and the confidence variant exactly
\* ("", 0.0, "No text detected in the image"); and that error is returned only
\* when the engine's result is empty.
C3_NoTextExactlyWhenNoRegions ==
    IsServiceDetect =>
        /\ (EngineReturned /\ last.outcome.regions = <<>>) =>
              /\ ~last.ret.raised
              /\ last.ret.text = <<>>
              /\ last.ret.error = Some(NoTextMsg)
              /\ last.op = "detect_document_with_confidence" =>
                    (last.ret.confidence.num = 0 /\ last.ret.confidence.den > 0)
        /\ last.ret.error = Some(NoTextMsg) =>
              (EngineReturned /\ last.outcome.regions = <<>>)

C3_Witness ==
    /\ last.op = "detect_document"
    /\ EngineReturned
    /\ last.outcome.regions = <<>>
    /\ last.ret.error = Some(NoTextMsg)

\* C4: when the engine returns a non-empty list of lines, the returned text is
\* those lines in the engine's order joined by exactly one space, with no
\* leading or trailing separator, and the returned error is None.
C4_TextIsSpaceJoinedLines ==
    (IsServiceDetect /\ EngineReturned /\ last.outcome.regions # <<>>) =>
        /\ last.ret.error = None
        /\ IsSpaceJoined(last.ret.text, RecognizedLines)

C4_Witness ==
    /\ last.op = "detect_document_with_confidence"
    /\ EngineReturned
    /\ Len(last.outcome.regions) = 2
    /\ last.ret.text = <<"b", " ", "c", " ", "a">>

\* C5: the confidence returned by detect_document_with_confidence lies in
\* [0,1]; for n >= 1 regions it is the sum of the region scores divided by n;
\* it is 0.0 when there are no regions or an error is returned.
C5_ConfidenceIsMeanInUnitInterval ==
    last.op = "detect_document_with_confidence" =>
        /\ last.ret.confidence.den > 0
        /\ FloatLeq(Zero, last.ret.confidence)
        /\ FloatLeq(last.ret.confidence, Float(1, 1))
        /\ (EngineReturned /\ Len(last.outcome.regions) >= 1) =>
              IsMeanOf(last.ret.confidence, RegionScores)
        /\ (last.outcome.regions = <<>> \/ last.ret.error # None) =>
              FloatEq(last.ret.confidence, Zero)

C5_Witness ==
    /\ last.op = "detect_document_with_confidence"
    /\ EngineReturned
    /\ Len(last.outcome.regions) = 2
    /\ FloatEq(last.ret.confidence, Float(5, 8))

\* C6: is_supported_format(path) is true exactly when the path ends,
\* case-insensitively, with .jpg, .jpeg, .png, .gif, .bmp, .webp or .ico
\* ("a.PNG" is true, "a.txt" is false); it is decided by the path alone and
\* the call makes no engine invocation.
C6_SupportedFormatIsSuffixCheck ==
    last.op = "is_supported_format" =>
        /\ last.ret.value = HasAllowedSuffix(last.path)
        /\ last.path = <<"a", ".", "P", "N", "G">> => last.ret.value = TRUE
        /\ last.path = <<"a", ".", "t", "x", "t">> => last.ret.value = FALSE
        /\ last.ret.invocations = 0
        /\ ~last.ret.raised

C6_Witness ==
    /\ last.op = "is_supported_format"
    /\ last.path = <<"a", ".", "P", "N", "G">>
    /\ last.ret.value = TRUE

\* C7: for the same engine outcome (the same ordered regions, or the same
\* exception) detect_document_with_confidence returns the same text and the
\* same error as detect_document.
C7_VariantsAgreeOnTextAndError ==
    (IsServiceDetect /\ last.twin.some) =>
        /\ last.ret.text = last.twin.text
        /\ last.ret.error = last.twin.error

C7_Witness ==
    /\ last.op = "detect_document_with_confidence"
    /\ last.twin.some
    /\ Len(last.outcome.regions) = 2
    /\ last.ret.text # <<>>

\* C8: nothing is retried: each call of detect_document and of
\* detect_document_with_confidence invokes readtext exactly once, whether it
\* succeeds, returns no regions or raises, and then returns a result.
C8_ReadtextInvokedExactlyOnce ==
    IsServiceDetect =>
        /\ last.ret.invocations = 1
        /\ ~last.ret.raised

C8_Witness ==
    /\ last.op = "detect_document"
    /\ EngineRaised
    /\ last.ret.invocations = 1

\* C9: the language configuration is fixed at construction: ['en'] when
\* constructed with None or an empty list, otherwise the list supplied; after
\* any sequence of calls the languages and the engine handle are the ones of
\* construction.
C9_LanguagesFixedAtConstruction ==
    /\ languages = (IF ctorArg = None \/ ctorArg.str = <<>>
                    THEN << <<"e", "n">> >> ELSE ctorArg.str)
    /\ reader = [langs |-> languages]

C9_Witness ==
    /\ ctorArg = Some(<<>>)
    /\ languages = << <<"e", "n">> >>
    /\ last.op = "detect_document_with_confidence"
    /\ last.ret.error # None

\* C10 as stated: the module-level detect_document(path) never raises for an
\* exception of readtext and returns the space-joined lines on success,
\* "No text detected in the image" and a newline when no regions are found,
\* "Error processing image: <message>" and a newline when readtext raises;
\* the caller's standard output is restored and receives nothing.
C10_AsStated ==
    last.op = "module_detect_document" =>
        /\ ~last.ret.raised
        /\ (EngineReturned /\ last.outcome.regions # <<>>) =>
              IsSpaceJoined(last.ret.value, RecognizedLines)
        /\ (EngineReturned /\ last.outcome.regions = <<>>) =>
              last.ret.value = NoTextMsg \o NL
        /\ EngineRaised =>
              last.ret.value = ErrorPrefix \o last.outcome.msg \o NL
        /\ stdout.target = "caller"
        /\ stdout.text = last.stdoutBefore

\* C10 amended: as stated, except that the captured output returned when no
\* regions are found or readtext raises is everything written to standard
\* output during the call: what the engine wrote, followed by the message and
\* a newline.
C10_ReturnsCapturedOutput ==
    last.op = "module_detect_document" =>
        /\ ~last.ret.raised
        /\ (EngineReturned /\ last.outcome.regions # <<>>) =>
              IsSpaceJoined(last.ret.value, RecognizedLines)
        /\ (EngineReturned /\ last.outcome.regions = <<>>) =>
              last.ret.value = last.printed \o NoTextMsg \o NL
        /\ EngineRaised =>
              last.ret.value = last.printed \o ErrorPrefix \o last.outcome.msg \o NL
        /\ stdout.target = "caller"
        /\ stdout.text = last.stdoutBefore

C10_Witness ==
    /\ last.op = "module_detect_document"
    /\ last.printed # <<>>
    /\ EngineReturned
    /\ last.outcome.regions = <<>>
    /\ last.ret.value = last.printed \o NoTextMsg \o NL

====
